---- MODULE Spec2Model ----
(***************************************************************************)
(* Model of nksr/nn/encdec.py: ResnetBlockFC, PointEncoder and             *)
(* MultiscalePointDecoder.                                                 *)
(*                                                                         *)
(* Tensor entries are exact rationals <<n, d>> (d > 0, lowest terms), so   *)
(* every arithmetic identity checked here is an identity of real           *)
(* arithmetic; floating-point rounding is not modelled.  A tensor is a     *)
(* record [n, k, v]: n rows, k columns, v the sequence of rows, so that a  *)
(* tensor with zero rows keeps its width as torch tensors do.              *)
(***************************************************************************)
EXTENDS Integers, Sequences, FiniteSets, TLC

VARIABLES svh, blk, blkX, blkOut, enc, encIn, encOut, dec, decCtor, decIn, decOut

vars == <<svh, blk, blkX, blkOut, enc, encIn, encOut, dec, decCtor, decIn, decOut>>

(* Bounds of the model *)
MaxWidth == 2
MaxPts == 2
MaxDepths == 2
MaxBlocks == 2

\* Seeds of the default (random) parameter initialisation
Seeds == {0, 1, 2}
\* World positions of the points the model feeds in (two axes)
Points == {<<-3, 0>>, <<0, 0>>, <<1, 0>>, <<2, 1>>}

\* Python's None where an object (a module, a tensor, a grid) is expected
None == [none |-> TRUE]
\* An optional number or list argument: NoArg for None, Arg(v) for a value
NoArg == <<>>
Arg(v) == <<v>>
\* bias=False: the layer has no bias parameter
NoBias == <<>>

\* ------------------------------------------------------------------------
\* Exact rational arithmetic for tensor entries
\* ------------------------------------------------------------------------
Abs(a) == IF a < 0 THEN -a ELSE a

RECURSIVE GCD(_, _)
GCD(a, b) == IF b = 0 THEN a ELSE GCD(b, a % b)

RNorm(n, d) ==
    LET g == GCD(Abs(n), Abs(d))
        s == IF d < 0 THEN -1 ELSE 1
    IN  <<(s * n) \div g, (s * d) \div g>>

R(i) == <<i, 1>>
Half == <<1, 2>>

RAdd(a, b) == RNorm(a[1] * b[2] + b[1] * a[2], a[2] * b[2])
RSub(a, b) == RNorm(a[1] * b[2] - b[1] * a[2], a[2] * b[2])
RMul(a, b) == RNorm(a[1] * b[1], a[2] * b[2])
RDiv(a, b) == RNorm(a[1] * b[2], a[2] * b[1])
RLt(a, b) == a[1] * b[2] < b[1] * a[2]
RLe(a, b) == a[1] * b[2] <= b[1] * a[2]
RFloor(a) == a[1] \div a[2]

\* torch's % on tensors is torch.remainder: the result takes the divisor's sign
RRemainder(a, b) == RSub(a, RMul(b, R(RFloor(RDiv(a, b)))))

\* torch.round: round half to even
RRound(a) ==
    LET f == RFloor(a)
        r == RSub(a, R(f))
    IN  IF RLt(r, Half) THEN f
        ELSE IF RLt(Half, r) THEN f + 1
        ELSE IF f % 2 = 0 THEN f ELSE f + 1

RRelu(a) == IF a[1] < 0 THEN R(0) ELSE a

RECURSIVE RSum(_)
RSum(s) == IF s = <<>> THEN R(0) ELSE RAdd(Head(s), RSum(Tail(s)))

RECURSIVE RMaxSeq(_)
RMaxSeq(s) ==
    IF Len(s) = 1 THEN s[1]
    ELSE LET m == RMaxSeq(Tail(s)) IN IF RLt(s[1], m) THEN m ELSE s[1]

\* ------------------------------------------------------------------------
\* Tensors
\* ------------------------------------------------------------------------
Tensor(n, k, rows) == [n |-> n, k |-> k, v |-> rows]

Zeros(n, k) == Tensor(n, k, [i \in 1..n |-> [j \in 1..k |-> R(0)]])

\* nn.ReLU on a tensor
Relu(X) == Tensor(X.n, X.k, [i \in 1..X.n |-> [j \in 1..X.k |-> RRelu(X.v[i][j])]])

AddT(X, Y) == Tensor(X.n, X.k, [i \in 1..X.n |-> [j \in 1..X.k |-> RAdd(X.v[i][j], Y.v[i][j])]])

\* torch.cat([X, Y], dim=1)
Cat(X, Y) == Tensor(X.n, X.k + Y.k, [i \in 1..X.n |-> X.v[i] \o Y.v[i]])

\* X[mask] / X[idx]: the rows of X selected by the sequence of row numbers idx
Rows(X, idx) == Tensor(Len(idx), X.k, [i \in 1..Len(idx) |-> X.v[idx[i]]])

\* ------------------------------------------------------------------------
\* nn.Linear
\* ------------------------------------------------------------------------
\* Default (random) initialisation of a parameter: one of -1, 0, 1, fixed by the
\* construction's seed and the parameter's position.
DefaultInit(k) == R((k % 3) - 1)

FreshLinear(nin, nout, seed, bias) ==
    [nin |-> nin, nout |-> nout,
     weight |-> [o \in 1..nout |-> [i \in 1..nin |-> DefaultInit(seed + o + 2 * i)]],
     bias |-> IF bias THEN [o \in 1..nout |-> DefaultInit(seed + 2 * o + 1)] ELSE NoBias]

\* nn.init.zeros_(lin.weight)
ZeroWeight(lin) ==
    [lin EXCEPT !.weight = [o \in 1..lin.nout |-> [i \in 1..lin.nin |-> R(0)]]]

\* nn.init.constant_(lin.bias, c)
ConstantBias(lin, c) == [lin EXCEPT !.bias = [o \in 1..lin.nout |-> c]]

Linear(lin, X) ==
    Tensor(X.n, lin.nout,
        [r \in 1..X.n |-> [o \in 1..lin.nout |->
            LET dot == RSum([i \in 1..lin.nin |-> RMul(lin.weight[o][i], X.v[r][i])])
            IN  IF lin.bias = NoBias THEN dot ELSE RAdd(dot, lin.bias[o])]])

\* ------------------------------------------------------------------------
\* ResnetBlockFC
\* ------------------------------------------------------------------------
Min(a, b) == IF a < b THEN a ELSE b

\* The constructor without nn.init.zeros_: fc_1.weight keeps its default initialisation.
ResnetBlockFC_init_NoZero(size_in, size_out_arg, size_h_arg, seed) ==
    LET size_out == IF size_out_arg = NoArg THEN size_in ELSE size_out_arg[1]
        size_h == IF size_h_arg = NoArg THEN Min(size_in, size_out) ELSE size_h_arg[1]
    IN  [size_in |-> size_in, size_h |-> size_h, size_out |-> size_out,
         fc_0 |-> FreshLinear(size_in, size_h, seed, TRUE),
         fc_1 |-> FreshLinear(size_h, size_out, seed + 1, TRUE),
         shortcut |-> IF size_in = size_out THEN None
                      ELSE FreshLinear(size_in, size_out, seed + 2, FALSE)]

ResnetBlockFC_init(size_in, size_out_arg, size_h_arg, seed) ==
    LET size_out == IF size_out_arg = NoArg THEN size_in ELSE size_out_arg[1]
        size_h == IF size_h_arg = NoArg THEN Min(size_in, size_out) ELSE size_h_arg[1]
    IN  [size_in |-> size_in, size_h |-> size_h, size_out |-> size_out,
         fc_0 |-> FreshLinear(size_in, size_h, seed, TRUE),
         fc_1 |-> ZeroWeight(FreshLinear(size_h, size_out, seed + 1, TRUE)),
         shortcut |-> IF size_in = size_out THEN None
                      ELSE FreshLinear(size_in, size_out, seed + 2, FALSE)]

ResnetBlockFC_forward(b, x) ==
    LET net == Linear(b.fc_0, Relu(x))
        dx == Linear(b.fc_1, Relu(net))
        x_s == IF b.shortcut # None THEN Linear(b.shortcut, x) ELSE x
    IN  AddT(x_s, dx)

\* ------------------------------------------------------------------------
\* The sparse voxel hierarchy (nksr.svh, the external collaborator).
\* svh[d + 1] is the grid of depth d, or None.
\* ------------------------------------------------------------------------
RECURSIVE Pow2(_)
Pow2(n) == IF n = 0 THEN 1 ELSE 2 * Pow2(n - 1)

\* The grid of depth d: voxel size 2^(d+1) world units, active voxels ijk
\* (a sequence of integer coordinate tuples; the position in it is the row index).
Grid(d, ijk) == [voxel_size |-> Pow2(d + 1), ijk |-> ijk]

num_voxels(grid) == Len(grid.ijk)

world_to_grid(grid, X) ==
    Tensor(X.n, X.k, [i \in 1..X.n |-> [j \in 1..X.k |->
        RDiv(X.v[i][j], R(grid.voxel_size))]])

\* The dense row index of an integer coordinate, -1 when no active voxel has it
ijk_to_index(grid, c) ==
    IF \E r \in 1..Len(grid.ijk) : grid.ijk[r] = c
    THEN (CHOOSE r \in 1..Len(grid.ijk) : grid.ijk[r] = c) - 1
    ELSE -1

\* ------------------------------------------------------------------------
\* torch_scatter
\* ------------------------------------------------------------------------
\* The rows of src whose index is v, in order
RECURSIVE Group(_, _, _)
Group(index, v, i) ==
    IF i > Len(index) THEN <<>>
    ELSE (IF index[i] = v THEN <<i>> ELSE <<>>) \o Group(index, v, i + 1)

\* scatter_max(src, index, dim=0, dim_size)[0]: an empty group gives 0
ScatterMax(src, index, dim_size) ==
    Tensor(dim_size, src.k,
        [r \in 1..dim_size |-> [j \in 1..src.k |->
            LET g == Group(index, r - 1, 1)
            IN  IF g = <<>> THEN R(0)
                ELSE RMaxSeq([m \in 1..Len(g) |-> src.v[g[m]][j]])]])

\* scatter_mean(src, index, dim=0, dim_size): the sum over the group divided by
\* the group's count clamped to at least 1
ScatterMean(src, index, dim_size) ==
    Tensor(dim_size, src.k,
        [r \in 1..dim_size |-> [j \in 1..src.k |->
            LET g == Group(index, r - 1, 1)
                count == IF Len(g) < 1 THEN 1 ELSE Len(g)
            IN  RDiv(RSum([m \in 1..Len(g) |-> src.v[g[m]][j]]), R(count))]])

\* A scatter fails on an index outside [0, dim_size)
ScatterIndexOk(index, dim_size) ==
    \A i \in 1..Len(index) : index[i] >= 0 /\ index[i] < dim_size

\* ------------------------------------------------------------------------
\* PointEncoder
\* ------------------------------------------------------------------------
PointEncoder_init(dim, c_dim, hidden_dim, n_blocks, seed) ==
    [dim |-> dim, c_dim |-> c_dim, hidden_dim |-> hidden_dim,
     fc_pos |-> FreshLinear(dim, 2 * hidden_dim, seed, TRUE),
     blocks |-> [i \in 1..n_blocks |->
                    ResnetBlockFC_init(2 * hidden_dim, Arg(hidden_dim), NoArg, seed + i)],
     fc_c |-> FreshLinear(hidden_dim, c_dim, seed + 1, TRUE)]

\* The check without the assertion: an absent grid is let through.
GridBuilt_Stripped(grid) == TRUE

\* assert grid is not None
GridBuilt(grid) == grid # None

\* The mask that drops no point.
PtsMask_All(vid) == [i \in 1..Len(vid) |-> TRUE]

\* pts_mask = vid != -1
PtsMask(vid) == [i \in 1..Len(vid) |-> vid[i] # -1]

\* The row numbers a boolean mask selects, in order
RECURSIVE Selected(_, _)
Selected(mask, i) ==
    IF i > Len(mask) THEN <<>>
    ELSE (IF mask[i] THEN <<i>> ELSE <<>>) \o Selected(mask, i + 1)

\* pts_xyz.round().int()
RoundedCoord(g) == [i \in 1..g.n |-> [j \in 1..g.k |-> RRound(g.v[i][j])]]

\* (pts_xyz + 0.5) % 1
LocalCoord(g) ==
    Tensor(g.n, g.k, [i \in 1..g.n |-> [j \in 1..g.k |->
        RRemainder(RAdd(g.v[i][j], Half), R(1))]])

\* for block in self.blocks[1:]: pool per voxel, broadcast back, concatenate
RECURSIVE PoolBlocks(_, _, _, _, _)
PoolBlocks(e, pts_feature, vid, grid, i) ==
    IF i > Len(e.blocks) THEN pts_feature
    ELSE LET pooled == ScatterMax(pts_feature, vid, num_voxels(grid))
             back == Rows(pooled, [m \in 1..Len(vid) |-> vid[m] + 1])
         IN  PoolBlocks(e, ResnetBlockFC_forward(e.blocks[i], Cat(pts_feature, back)),
                        vid, grid, i + 1)

\* The aggregation without dim_size: the row count is left to the largest index seen.
AggregateCodes_NoDimSize(c, vid, grid) ==
    ScatterMean(c, vid, IF vid = <<>> THEN 0
                        ELSE 1 + CHOOSE m \in {vid[i] : i \in 1..Len(vid)} :
                                    \A i \in 1..Len(vid) : vid[i] <= m)

\* c = scatter_mean(c, vid, dim=0, dim_size=grid.num_voxels)
AggregateCodes(c, vid, grid) == ScatterMean(c, vid, num_voxels(grid))

EncFailed(status, ops) ==
    [status |-> status, ops |-> ops, g |-> None, ijk |-> None, frac |-> None,
     vid_all |-> None, vid |-> None, proj |-> None, out |-> None]

PointEncoder_forward(e, pts_xyz, pts_feature, hier, depth) ==
    LET grid == hier[depth + 1] IN
    IF ~GridBuilt(grid) THEN EncFailed("AssertionError", <<>>)
    ELSE IF grid = None THEN EncFailed("AttributeError", <<>>)
    ELSE
    LET g == world_to_grid(grid, pts_xyz)
        ijk == RoundedCoord(g)
        vid_all == [i \in 1..Len(ijk) |-> ijk_to_index(grid, ijk[i])]
        frac == LocalCoord(g)
        keep == Selected(PtsMask(vid_all), 1)
        vid == [i \in 1..Len(keep) |-> vid_all[keep[i]]]
        xyz == Rows(frac, keep)
        lookups == <<"world_to_grid", "ijk_to_index">>
    IN  IF ~ScatterIndexOk(vid, num_voxels(grid))
        THEN EncFailed("RuntimeError", lookups)
        ELSE
        LET feat0 == IF pts_feature = None THEN Linear(e.fc_pos, xyz)
                     ELSE Linear(e.fc_pos, Cat(xyz, Rows(pts_feature, keep)))
            feat1 == ResnetBlockFC_forward(e.blocks[1], feat0)
            featN == PoolBlocks(e, feat1, vid, grid, 2)
            c == Linear(e.fc_c, featN)
        IN  [status |-> "ok",
             ops |-> lookups \o [i \in 1..(Len(e.blocks) - 1) |-> "scatter_max"]
                             \o <<"scatter_mean">>,
             g |-> g, ijk |-> ijk, frac |-> frac, vid_all |-> vid_all, vid |-> vid,
             proj |-> c, out |-> AggregateCodes(c, vid, grid)]

\* ------------------------------------------------------------------------
\* MultiscalePointDecoder
\* ------------------------------------------------------------------------
\* sorted(list)
RECURSIVE Insert(_, _)
Insert(x, s) ==
    IF s = <<>> THEN <<x>>
    ELSE IF x <= Head(s) THEN <<x>> \o s
    ELSE <<Head(s)>> \o Insert(x, Tail(s))

RECURSIVE Sorted(_)
Sorted(s) == IF s = <<>> THEN <<>> ELSE Insert(Head(s), Sorted(Tail(s)))

\* The mode check without its else branch: an unknown mode is treated as 'sum'.
AggregationWidth_Fallthrough(aggregation, c_each_dim, multiscale_depths) ==
    IF aggregation = "cat" THEN [raised |-> "no", c_dim |-> c_each_dim * multiscale_depths]
    ELSE [raised |-> "no", c_dim |-> c_each_dim]

\* if aggregation == 'cat' ... elif 'sum' ... else: raise NotImplementedError
AggregationWidth(aggregation, c_each_dim, multiscale_depths) ==
    IF aggregation = "cat" THEN [raised |-> "no", c_dim |-> c_each_dim * multiscale_depths]
    ELSE IF aggregation = "sum" THEN [raised |-> "no", c_dim |-> c_each_dim]
    ELSE [raised |-> "NotImplementedError", c_dim |-> 0]

\* The output initialisation without zeros_: the bias is set, the weight is not zeroed.
InitOutput_BiasOnly(fc_out, out_init) ==
    IF out_init # NoArg THEN ConstantBias(fc_out, R(out_init[1])) ELSE fc_out

\* if out_init is not None: zeros_(fc_out.weight); constant_(fc_out.bias, out_init)
InitOutput(fc_out, out_init) ==
    IF out_init # NoArg THEN ConstantBias(ZeroWeight(fc_out), R(out_init[1])) ELSE fc_out

\* The constructor: what it raised, the submodules it created (in order) and
\* the module, None when it raised.
MultiscalePointDecoder_init(a) ==
    LET w == AggregationWidth(a.aggregation, a.c_each_dim, a.multiscale_depths) IN
    IF w.raised # "no" THEN [raised |-> w.raised, created |-> <<>>, module |-> None]
    ELSE
    LET coords_depths ==
            Sorted(IF a.coords_depths = NoArg
                   THEN [i \in 1..a.multiscale_depths |-> i - 1]
                   ELSE a.coords_depths[1])
    IN  [raised |-> "no",
         created |-> <<"fc_c", "fc_p", "blocks", "fc_out">>,
         module |->
            [c_dim |-> w.c_dim, c_each_dim |-> a.c_each_dim, n_blocks |-> a.n_blocks,
             multiscale_depths |-> a.multiscale_depths, aggregation |-> a.aggregation,
             coords_depths |-> coords_depths,
             fc_c |-> [i \in 1..a.n_blocks |->
                          FreshLinear(w.c_dim, a.hidden_size, a.seed + i, TRUE)],
             fc_p |-> FreshLinear(a.p_dim * Len(coords_depths), a.hidden_size, a.seed, TRUE),
             blocks |-> [i \in 1..a.n_blocks |->
                          ResnetBlockFC_init(a.hidden_size, NoArg, NoArg, a.seed + i)],
             fc_out |-> InitOutput(FreshLinear(a.hidden_size, a.out_dim, a.seed + 1, TRUE),
                                   a.out_init),
             out_dim |-> a.out_dim]]

\* The local coordinate with a remainder that truncates toward zero (fmod).
DepthLocalCoord_Fmod(x, vs) ==
    LET q == RDiv(x, R(vs))
        t == IF q[1] < 0 THEN -((-q[1]) \div q[2]) ELSE q[1] \div q[2]
    IN  RSub(RDiv(RSub(x, RMul(R(vs), R(t))), R(vs)), Half)

\* p = (xyz % vs) / vs - 0.5, one entry
DepthLocalCoord(x, vs) == RSub(RDiv(RRemainder(x, R(vs)), R(vs)), Half)

\* torch.cat(list, dim=1)
RECURSIVE CatAll(_)
CatAll(ts) == IF Len(ts) = 1 THEN ts[1] ELSE Cat(ts[1], CatAll(Tail(ts)))

\* sum(list): 0 + t1 + t2 + ...
RECURSIVE SumAll(_)
SumAll(ts) == IF Len(ts) = 1 THEN ts[1] ELSE AddT(ts[1], SumAll(Tail(ts)))

\* The positional feature: the local coordinates of every depth in coords_depths
PositionalFeature(d, xyz, hier) ==
    CatAll([c \in 1..Len(d.coords_depths) |->
        LET vs == hier[d.coords_depths[c] + 1].voxel_size
        IN  Tensor(xyz.n, xyz.k, [i \in 1..xyz.n |-> [j \in 1..xyz.k |->
                DepthLocalCoord(xyz.v[i][j], vs)]])])

\* The per-depth features: zeros for an absent grid, else what the grid's
\* trilinear sampler returned for that depth
DepthFeatures(d, xyz, hier, sampled) ==
    [i \in 1..d.multiscale_depths |->
        IF hier[i] = None THEN Zeros(xyz.n, d.c_each_dim) ELSE sampled[i]]

\* The aggregation that concatenates in either mode.
Aggregate_AlwaysCat(aggregation, c_feats) == CatAll(c_feats)

\* if self.aggregation == 'cat': torch.cat(c_feats, dim=1) else: sum(c_feats)
Aggregate(aggregation, c_feats) ==
    IF aggregation = "cat" THEN CatAll(c_feats) ELSE SumAll(c_feats)

\* for i in range(n_blocks): net = blocks[i](net + fc_c[i](c))
RECURSIVE Fuse(_, _, _, _)
Fuse(d, net, c, i) ==
    IF i > d.n_blocks THEN net
    ELSE Fuse(d, ResnetBlockFC_forward(d.blocks[i], AddT(net, Linear(d.fc_c[i], c))), c, i + 1)

DecFailed(status) ==
    [status |-> status, p |-> None, c_feats |-> <<>>, c |-> None, net |-> None, out |-> None]

MultiscalePointDecoder_forward(d, xyz, hier, sampled) ==
    IF \E c \in 1..Len(d.coords_depths) : hier[d.coords_depths[c] + 1] = None
    THEN DecFailed("AttributeError")
    ELSE
    LET p == PositionalFeature(d, xyz, hier)
        c_feats == DepthFeatures(d, xyz, hier, sampled)
        c == Aggregate(d.aggregation, c_feats)
        net == Fuse(d, Linear(d.fc_p, p), c, 1)
    IN  [status |-> "ok", p |-> p, c_feats |-> c_feats, c |-> c, net |-> net,
         out |-> Linear(d.fc_out, Relu(net))]

\* ------------------------------------------------------------------------
\* Inputs
\* ------------------------------------------------------------------------
\* The active voxels of depth d
ActiveVoxels(d) ==
    IF d = 0 THEN << <<0, 0>>, <<1, 0>>, <<3, 0>> >> ELSE << <<-1, 0>>, <<0, 0>> >>

\* The hierarchies with every depth built, or all but one
EncHierarchies ==
    {[i \in 1..MaxDepths |-> IF i = a THEN None ELSE Grid(i - 1, ActiveVoxels(i - 1))] :
        a \in 0..MaxDepths}

\* Batches of up to MaxPts points
PointBatches ==
    UNION {[1..n -> Points] : n \in 0..MaxPts}

\* The position tensor of a batch
PositionTensor(batch) ==
    Tensor(Len(batch), 2, [i \in 1..Len(batch) |-> [j \in 1..2 |-> R(batch[i][j])]])

\* One feature column per point
FeatureTensor(batch) ==
    Tensor(Len(batch), 1, [i \in 1..Len(batch) |-> <<R(2 * i - 3)>>])

NotCalled == [status |-> "NotCalled"]

\* ------------------------------------------------------------------------
\* Actions: the Residual Feature Block
\* ------------------------------------------------------------------------
\* A module keeps no state between calls beyond its parameters, which forward
\* never writes: each behaviour constructs one module and calls it once.
OptWidths == {NoArg} \cup {Arg(k) : k \in 1..MaxWidth}

BlockConstruct ==
    /\ blk = None
    /\ \E size_in \in 1..MaxWidth, size_out \in OptWidths, size_h \in OptWidths,
          seed \in Seeds :
          blk' = ResnetBlockFC_init(size_in, size_out, size_h, seed)
    /\ UNCHANGED <<svh, blkX, blkOut, enc, encIn, encOut, dec, decCtor, decIn, decOut>>

BlockForward ==
    /\ blk # None
    /\ blkOut = NotCalled
    /\ \E x \in [1..blk.size_in -> {-1, 0, 2}] :
          /\ blkX' = Tensor(1, blk.size_in, <<[i \in 1..blk.size_in |-> R(x[i])]>>)
          /\ blkOut' = ResnetBlockFC_forward(blk, blkX')
    /\ UNCHANGED <<svh, blk, enc, encIn, encOut, dec, decCtor, decIn, decOut>>

\* ------------------------------------------------------------------------
\* Actions: the Point Encoder
\* ------------------------------------------------------------------------
EncConstruct ==
    /\ enc = None
    /\ \E dim \in {2, 3}, c_dim \in 1..MaxWidth, n_blocks \in 1..MaxBlocks, seed \in Seeds :
          enc' = PointEncoder_init(dim, c_dim, 1, n_blocks, seed)
    /\ UNCHANGED <<svh, blk, blkX, blkOut, encIn, encOut, dec, decCtor, decIn, decOut>>

\* One call of forward; the features are given exactly when the encoder was
\* built for them (dim = 3)
EncForward ==
    /\ enc # None
    /\ encOut = NotCalled
    /\ \E batch \in PointBatches, depth \in 0..(MaxDepths - 1) :
          /\ encIn' = [pts_xyz |-> PositionTensor(batch),
                       pts_feature |-> IF enc.dim = 2 THEN None ELSE FeatureTensor(batch),
                       depth |-> depth]
          /\ encOut' = PointEncoder_forward(enc, encIn'.pts_xyz, encIn'.pts_feature,
                                            svh, depth)
    /\ UNCHANGED <<svh, blk, blkX, blkOut, enc, dec, decCtor, decIn, decOut>>

\* ------------------------------------------------------------------------
\* Actions: the Multiscale Point Decoder
\* ------------------------------------------------------------------------
\* Every hierarchy: each depth built or absent
DecHierarchies ==
    {[i \in 1..MaxDepths |-> IF i \in absent THEN None ELSE Grid(i - 1, ActiveVoxels(i - 1))] :
        absent \in SUBSET (1..MaxDepths)}

Aggregations == {"cat", "sum", "mean"}

\* coords_depths: the default, the coarsest depth alone, every depth in descending order
CoordsDepthsArgs(D) == {NoArg, Arg(<<D - 1>>), Arg([i \in 1..D |-> D - i])}

\* Query batches: each point alone, and all of them together
QueryBatches ==
    {<<pt>> : pt \in Points} \cup {<< <<-3, 0>>, <<1, 0>>, <<2, 1>> >>}

\* What the grids' trilinear samplers return for a batch of M points: per depth
\* an M x width tensor, constant (0, 1 or -2) or varying with point, channel and depth
SampleKinds == {"zero", "one", "minus two", "varying"}

SampledFeatures(kind, D, M, width) ==
    [i \in 1..D |-> Tensor(M, width, [m \in 1..M |-> [k \in 1..width |->
        IF kind = "zero" THEN R(0)
        ELSE IF kind = "one" THEN R(1)
        ELSE IF kind = "minus two" THEN R(-2)
        ELSE R(m + k - 2 * i)]])]

DecConstruct ==
    /\ decCtor = None
    /\ \E c_each_dim \in 1..MaxWidth, D \in 1..MaxDepths, n_blocks \in 1..MaxBlocks,
          aggregation \in Aggregations, out_init \in {NoArg, Arg(2)}, seed \in {0, 1} :
          \E coords_depths \in CoordsDepthsArgs(D) :
             LET a == [c_each_dim |-> c_each_dim, multiscale_depths |-> D, p_dim |-> 2,
                       out_dim |-> 2, hidden_size |-> 2, n_blocks |-> n_blocks,
                       aggregation |-> aggregation, out_init |-> out_init,
                       coords_depths |-> coords_depths, seed |-> seed]
                 made == MultiscalePointDecoder_init(a)
             IN  /\ decCtor' = [args |-> a, raised |-> made.raised, created |-> made.created]
                 /\ dec' = made.module
    /\ UNCHANGED <<svh, blk, blkX, blkOut, enc, encIn, encOut, decIn, decOut>>

DecForward ==
    /\ dec # None
    /\ decOut = NotCalled
    /\ \E batch \in QueryBatches, kind \in SampleKinds :
          /\ decIn' = [xyz |-> PositionTensor(batch),
                       sampled |-> SampledFeatures(kind, dec.multiscale_depths,
                                                   Len(batch), dec.c_each_dim)]
          /\ decOut' = MultiscalePointDecoder_forward(dec, decIn'.xyz, svh, decIn'.sampled)
    /\ UNCHANGED <<svh, blk, blkX, blkOut, enc, encIn, encOut, dec, decCtor>>

Idle ==
    /\ blk = None /\ blkX = None /\ blkOut = NotCalled
    /\ enc = None /\ encIn = None /\ encOut = NotCalled
    /\ dec = None /\ decCtor = None /\ decIn = None /\ decOut = NotCalled

InitBlock == svh = <<>> /\ Idle
NextBlock == BlockConstruct \/ BlockForward
SpecBlock == InitBlock /\ [][NextBlock]_vars

InitEnc == svh \in EncHierarchies /\ Idle
NextEnc == EncConstruct \/ EncForward
SpecEnc == InitEnc /\ [][NextEnc]_vars

InitDec == svh \in DecHierarchies /\ Idle
NextDec == DecConstruct \/ DecForward
SpecDec == InitDec /\ [][NextDec]_vars

\* ========================================================================
\* Properties: the Residual Feature Block
\* ========================================================================
\* The shortcut branch of the block on its own
ShortcutValue == IF blk.size_in = blk.size_out THEN blkX ELSE Linear(blk.shortcut, blkX)

\* The hidden activation the output layer fc_1 is applied to
HiddenActivation == Relu(Linear(blk.fc_0, Relu(blkX)))

NonZeroRow(row) == \E j \in 1..Len(row) : row[j] # R(0)

EncCalled == encOut # NotCalled

EncGrid == svh[encIn.depth + 1]

\* The row numbers 1..n without i
RECURSIVE Without(_, _, _)
Without(n, i, m) ==
    IF m > n THEN <<>>
    ELSE (IF m = i THEN <<>> ELSE <<m>>) \o Without(n, i, m + 1)

RemoveRow(X, i) == IF X = None THEN None ELSE Rows(X, Without(X.n, i, 1))

\* The voxel row a point resolves to, from the grid alone
PointIndex(i) ==
    ijk_to_index(EncGrid, RoundedCoord(world_to_grid(EncGrid, encIn.pts_xyz))[i])

\* C3: a point that resolves to the sentinel index -1 influences no output row:
\* the call completes, no sentinel index reaches a pooling or the aggregation,
\* and the voxel codes equal those computed with the point (and its feature
\* row) removed.
C3_SentinelPointsInert ==
    (EncCalled /\ EncGrid # None) =>
        /\ encOut.status = "ok"
        /\ \A m \in 1..Len(encOut.vid) : encOut.vid[m] # -1
        /\ encOut.proj.n = Cardinality({i \in 1..encIn.pts_xyz.n : PointIndex(i) # -1})
        /\ \A i \in 1..encIn.pts_xyz.n :
              PointIndex(i) = -1 =>
                  PointEncoder_forward(enc, RemoveRow(encIn.pts_xyz, i),
                                       RemoveRow(encIn.pts_feature, i),
                                       svh, encIn.depth).out = encOut.out

\* A call with pooling stages in which one point has no active voxel and another has
C3_Witness ==
    /\ EncCalled /\ EncGrid # None
    /\ Len(enc.blocks) >= 2
    /\ encIn.pts_feature # None
    /\ \E i, j \in 1..encIn.pts_xyz.n : PointIndex(i) = -1 /\ PointIndex(j) # -1
    /\ \E r \in 1..encOut.out.n : NonZeroRow(encOut.out.v[r])

\* The input points whose rounded grid coordinate is the voxel of row r
PointsOfVoxel(r) ==
    {i \in 1..encIn.pts_xyz.n : PointIndex(i) = r - 1}

\* C6: forward returns num_voxels rows of width c_dim, each well-defined: the
\* row of a voxel no point maps to is zero, the row of any other voxel is the
\* mean of the projected features of the points routed to it.
C6_EveryVoxelRowDefined ==
    (EncCalled /\ EncGrid # None) =>
        /\ encOut.status = "ok"
        /\ encOut.out.n = num_voxels(EncGrid)
        /\ encOut.out.k = enc.c_dim
        /\ Len(encOut.out.v) = num_voxels(EncGrid)
        /\ \A r \in 1..num_voxels(EncGrid) :
              LET g == Group(encOut.vid, r - 1, 1) IN
              /\ Len(encOut.out.v[r]) = enc.c_dim
              /\ Len(g) = Cardinality(PointsOfVoxel(r))
              /\ \A j \in 1..enc.c_dim :
                    IF g = <<>> THEN encOut.out.v[r][j] = R(0)
                    ELSE RMul(encOut.out.v[r][j], R(Len(g))) =
                         RSum([m \in 1..Len(g) |-> encOut.proj.v[g[m]][j]])

\* A call in which one voxel receives two points with different projected
\* features and another voxel receives none
C6_Witness ==
    /\ EncCalled /\ EncGrid # None
    /\ \E r \in 1..num_voxels(EncGrid) : PointsOfVoxel(r) = {}
    /\ \E r \in 1..num_voxels(EncGrid) :
          LET g == Group(encOut.vid, r - 1, 1) IN
          /\ Len(g) = 2
          /\ encOut.proj.v[g[1]] # encOut.proj.v[g[2]]
          /\ encOut.out.v[r] # encOut.proj.v[g[1]]

\* C8: forward at a depth whose grid is absent fails at once with the assertion
\* (precondition) error: no collaborator call was made and there is no output.
C8_AbsentGridFailsFirst ==
    (EncCalled /\ EncGrid = None) =>
        /\ encOut.status = "AssertionError"
        /\ encOut.ops = <<>>
        /\ encOut.out = None

\* A call with points at a depth whose grid is absent
C8_Witness ==
    /\ EncCalled /\ EncGrid = None
    /\ encIn.pts_xyz.n >= 1
    /\ encOut.status = "AssertionError"

\* C10 as stated: for every point and axis, with g the grid coordinate, r the
\* rounded coordinate used for the lookup and u the local coordinate, u is in
\* [0, 1) and g = r + u - 1/2.
C10_RoutingMatchesLocalCoord ==
    (EncCalled /\ EncGrid # None) =>
        \A i \in 1..encIn.pts_xyz.n : \A j \in 1..encIn.pts_xyz.k :
            LET g == encOut.g.v[i][j]
                r == encOut.ijk[i][j]
                u == encOut.frac.v[i][j]
            IN  /\ RLe(R(0), u) /\ RLt(u, R(1))
                /\ g = RSub(RAdd(R(r), u), Half)

\* ========================================================================
\* Properties: the Multiscale Point Decoder
\* ========================================================================
DecCalled == decOut # NotCalled

ConstantTensor(t, n, k, val) ==
    /\ t.n = n /\ t.k = k
    /\ \A m \in 1..n : Len(t.v[m]) = k /\ \A j \in 1..k : t.v[m][j] = val

\* C2 as stated: with the default coords_depths, a call on a hierarchy in which
\* a depth below multiscale_depths is absent completes, and that depth
\* contributes exactly an all-zero feature of shape (points, c_each_dim).
C2_AbsentDepthDecodesAsZero ==
    (DecCalled /\ decCtor.args.coords_depths = NoArg) =>
        \A i \in 1..dec.multiscale_depths :
            svh[i] = None =>
                /\ decOut.status = "ok"
                /\ decOut.c_feats[i] = Zeros(decIn.xyz.n, dec.c_each_dim)

\* C4: an aggregation mode other than 'cat' and 'sum' makes the constructor
\* raise NotImplementedError with no submodule created and no module to call;
\* a supported mode never raises it.
C4_UnsupportedModeRaisesFirst ==
    decCtor # None =>
        IF decCtor.args.aggregation \in {"cat", "sum"}
        THEN decCtor.raised = "no" /\ dec # None
        ELSE /\ decCtor.raised = "NotImplementedError"
             /\ decCtor.created = <<>>
             /\ dec = None
             /\ decOut = NotCalled

\* A construction with an unsupported mode that was refused
C4_Witness ==
    /\ decCtor # None
    /\ decCtor.args.aggregation = "mean"
    /\ decCtor.raised = "NotImplementedError"
    /\ dec = None

\* The query positions moved by s along every axis
Shifted(xyz, s) ==
    Tensor(xyz.n, xyz.k, [i \in 1..xyz.n |-> [j \in 1..xyz.k |-> RAdd(xyz.v[i][j], R(s))]])

C7_ConstantFeaturesAggregate ==
    (DecCalled /\ decOut.status = "ok") =>
        LET D == dec.multiscale_depths
            M == decIn.xyz.n
            v == decOut.c_feats[1].v[1][1]
        IN  (\A i \in 1..D : ConstantTensor(decOut.c_feats[i], M, dec.c_each_dim, v)) =>
                /\ dec.aggregation = "cat" =>
                      ConstantTensor(decOut.c, M, D * dec.c_each_dim, v)
                /\ dec.aggregation = "sum" =>
                      ConstantTensor(decOut.c, M, dec.c_each_dim, RMul(R(D), v))
                /\ decOut.c.k = dec.c_dim
                /\ \A i \in 1..dec.n_blocks : dec.fc_c[i].nin = dec.c_dim

\* A 'sum' decoder over at least two depths called with a non-zero constant feature
C7_Witness ==
    /\ DecCalled /\ decOut.status = "ok"
    /\ dec.aggregation = "sum" /\ dec.multiscale_depths >= 2 /\ dec.c_each_dim >= 2
    /\ \A i \in 1..dec.multiscale_depths :
          ConstantTensor(decOut.c_feats[i], decIn.xyz.n, dec.c_each_dim, R(-2))
    /\ decOut.c.v[1][1] = R(-2 * dec.multiscale_depths)

\* C9: a freshly constructed decoder with out_init = v returns v in every output
\* channel of every query point, whatever the positions, voxel sizes and
\* features; with out_init = None fc_out keeps its default weight and bias.
C9_OutInitIsTheOutput ==
    /\ (DecCalled /\ decOut.status = "ok" /\ decCtor.args.out_init # NoArg) =>
          ConstantTensor(decOut.out, decIn.xyz.n, dec.out_dim, R(decCtor.args.out_init[1]))
    /\ (dec # None /\ decCtor.args.out_init = NoArg) =>
          dec.fc_out = FreshLinear(decCtor.args.hidden_size, dec.out_dim,
                                   decCtor.args.seed + 1, TRUE)

\* A call of a decoder built with out_init = 2 whose last hidden activation is
\* not zero and whose features vary
C9_Witness ==
    /\ DecCalled /\ decOut.status = "ok" /\ decCtor.args.out_init = Arg(2)
    /\ decIn.xyz.n >= 2
    /\ \E m \in 1..decIn.xyz.n : NonZeroRow(Relu(decOut.net).v[m])
    /\ decOut.c.v[1] # decOut.c.v[2]
    /\ ConstantTensor(decOut.out, decIn.xyz.n, 2, R(2))

====
